---- MODULE Spec2Model ----
(***************************************************************************)
(* Model of pallets/abc-demo: the per-height task queue (Tasks), the       *)
(* errand registry (Errands), the two dispatchables begin_task and         *)
(* init_errand, and the offchain worker send_errand_tasks with its         *)
(* external HTTP call and signed callback submission.                      *)
(***************************************************************************)
EXTENDS Integers, Sequences, FiniteSets, TLC

\* ---- bounds of the model ----
MaxHeight == 2          \* blocks 1..MaxHeight are produced
MaxCalls == 2           \* extrinsics sent by users (begin_task, init_errand) in a run

\* ---- finite input sets ----
Participants == {"p1", "p2"}               \* nodes running the offchain worker
Seeds == {0, 1}                            \* values random_seed() may return
Signed(a) == [kind |-> "Signed", who |-> a]
Root == [kind |-> "Root", who |-> 0]
\* begin_task(origin, description_cid, fee); <<98>> is "b", <<255>> is not UTF-8
BeginInputs ==
    { [origin |-> Signed(1), cid |-> <<98>>,  fee |-> 0],
      [origin |-> Signed(2), cid |-> <<98>>,  fee |-> 5],
      [origin |-> Signed(1), cid |-> <<255>>, fee |-> 5],
      [origin |-> Root,      cid |-> <<98>>,  fee |-> 0] }
ForgedId == <<120>>                        \* an errand id no generator emitted
DirectOrigins == {Signed(2)}
DirectEmployers == {2}
DirectCids == { <<99>> }                    \* "c"
\* keystores the two nodes may start with (keys are never shared between nodes)
Keystores ==
    { [p \in Participants |-> IF p = "p1" THEN {11, 12} ELSE {}],
      [p \in Participants |-> IF p = "p1" THEN {11} ELSE {13}] }
\* what the HTTP layer may answer to one request
HttpOutcomes == {"SendFailed", "DeadlineReached", "IoError", "Status200", "Status500"}

VARIABLES
    block_number,     \* frame_system block number of the current block
    executing,        \* TRUE while the block's extrinsics are being applied
    extrinsic_index,  \* frame_system extrinsic index inside the block
    random_seed,      \* collective-flip seed of the current block
    Tasks,            \* storage map BlockNumber => Vec<(AccountId,Cid,ErrandId,u32)>
    Errands,          \* storage map ErrandId => Option<Errand>
    pool,             \* signed init_errand transactions waiting for inclusion
    keys,             \* local keystore of every participant (KEY_TYPE "demo")
    pc,               \* position of every participant's worker
    wh,               \* current_height read by the running worker
    task_array,       \* task_array read by the running worker
    idx,              \* position of the for loop in task_array
    lastRun,          \* last height the participant's worker was invoked for
    nCalls,           \* number of user-sent extrinsics so far
    beginLog,         \* history: successful begin_task calls, in execution order,
                      \* with the seed and extrinsic index they ran under
    sent,             \* history: external calls performed by workers (retry: an
                      \* earlier call for the same entry had failed; accepted: the
                      \* accounts whose callback submission the pool took)
    submitted,        \* history: callback transactions handed to the pool
    executed          \* history: callback transactions executed from the pool

vars == <<block_number, executing, extrinsic_index, random_seed, Tasks, Errands,
          pool, keys, pc, wh, task_array, idx, lastRun, nCalls,
          beginLog, sent, submitted, executed>>

chainVars == <<block_number, executing, extrinsic_index, random_seed>>
workerVars == <<pc, wh, task_array, idx, lastRun>>
histVars == <<beginLog, sent, submitted, executed>>

\* ---- storage map primitives (frame_support StorageMap) ----
contains_key(map, k) == k \in DOMAIN map

\* mutant of StorageGet: the read drains the key, as take does
StorageGet_draining(map, k) ==
    [value |-> IF k \in DOMAIN map THEN map[k] ELSE <<>>,
     storage |-> [x \in DOMAIN map \ {k} |-> map[x]]]

\* mutant of StorageGet: the list of the height before is read as well
StorageGet_pending(map, k) ==
    [value |-> (IF k - 1 \in DOMAIN map THEN map[k - 1] ELSE <<>>)
                   \o (IF k \in DOMAIN map THEN map[k] ELSE <<>>),
     storage |-> map]

\* StorageMap::get with the ValueQuery default: reads, leaves storage as it is
StorageGet(map, k) ==
    [value |-> IF k \in DOMAIN map THEN map[k] ELSE <<>>, storage |-> map]

\* StorageMap::take: reads and removes the key
StorageTake(map, k) ==
    [value |-> IF k \in DOMAIN map THEN map[k] ELSE <<>>,
     storage |-> [x \in DOMAIN map \ {k} |-> map[x]]]

\* mutant of StorageInsert: the map is replaced by the single new pair
StorageInsert_clobber(map, k, v) == [x \in {k} |-> v]

\* StorageMap::insert: unconditional write of the key
StorageInsert(map, k, v) ==
    [x \in DOMAIN map \cup {k} |-> IF x = k THEN v ELSE map[x]]

\* mutant of push: the item is put at the front
push_front(vec, item) == <<item>> \o vec

\* Vec::push
push(vec, item) == Append(vec, item)

\* ---- SCALE encoding of an AccountId (employer.encode()) ----
encode(account) == <<account \div 16, account % 16>>

\* ---- identifier generator ----
HexChar(d) == IF d < 10 THEN 48 + d ELSE 87 + d      \* '0'..'9', 'a'..'f'

\* blake2_128 over the encoded payload, taken as collision free
blake2_128(seed, sender, index) ==
    (seed * 16 + (index % 16)) * 16 + (sender % 16)

\* Uuid::to_hyphenated().encode_lower(): lowercase hexadecimal text
encode_lower(digest) ==
    << HexChar((digest \div 256) % 16), HexChar((digest \div 16) % 16), 45,
       HexChar(digest % 16) >>

\* mutant of generate_errand_id: only the block's seed is hashed
generate_errand_id_seed_only(seed, sender, index) ==
    encode_lower(blake2_128(seed, 0, 0))

\* mutant of generate_errand_id: the extrinsic index is left out of the payload
generate_errand_id_no_index(seed, sender, index) ==
    encode_lower(blake2_128(seed, sender, 0))

\* generate_errand_id, lines 190-203
generate_errand_id(seed, sender, index) ==
    encode_lower(blake2_128(seed, sender, index))


\* ---- dispatchables ----
ensure_signed(origin) == origin.kind = "Signed"

\* mutant of begin_task: the existing list is replaced, not extended
begin_task_overwrite(tasks, height, sender, description_cid, errand_id, fee) ==
    StorageInsert(tasks, height, << <<sender, description_cid, errand_id, fee>> >>)

\* begin_task, lines 145-153: the storage the call leaves behind
begin_task(tasks, height, sender, description_cid, errand_id, fee) ==
    IF contains_key(tasks, height)
    THEN LET taken == StorageTake(tasks, height)
         IN  StorageInsert(taken.storage, height,
                           push(taken.value, <<sender, description_cid, errand_id, fee>>))
    ELSE StorageInsert(tasks, height, << <<sender, description_cid, errand_id, fee>> >>)

\* mutant of NewErrand: errand_id and description_cid change places
NewErrand_swapped(employer, errand_id, description_cid) ==
    [account_id |-> encode(employer),
     errand_id |-> description_cid,
     description_cid |-> errand_id,
     status |-> "Precessing",
     result |-> <<>>]

\* the Errand built by init_errand, lines 168-174
NewErrand(employer, errand_id, description_cid) ==
    [account_id |-> encode(employer),
     errand_id |-> errand_id,
     description_cid |-> description_cid,
     status |-> "Precessing",
     result |-> <<>>]

\* mutant of init_errand: a second call on an existing record marks it Done
init_errand_completing(errands, employer, errand_id, description_cid) ==
    StorageInsert(errands, errand_id,
        [NewErrand(employer, errand_id, description_cid) EXCEPT
            !.status = IF errand_id \in DOMAIN errands THEN "Done" ELSE "Precessing"])

\* mutant of init_errand: an id that has a record keeps it
init_errand_keep_first(errands, employer, errand_id, description_cid) ==
    IF errand_id \in DOMAIN errands
    THEN errands
    ELSE StorageInsert(errands, errand_id, NewErrand(employer, errand_id, description_cid))

\* init_errand, line 175: the registry the call leaves behind
init_errand(errands, employer, errand_id, description_cid) ==
    StorageInsert(errands, errand_id, NewErrand(employer, errand_id, description_cid))

\* mutant of InitErrandCall: the signing account is passed as the employer
InitErrandCall_signer(account, sender, errand_id, description_cid) ==
    [signer |-> account, employer |-> account, errand_id |-> errand_id,
     description_cid |-> description_cid]

\* a signed init_errand transaction built by a worker, line 236
InitErrandCall(account, sender, errand_id, description_cid) ==
    [signer |-> account, employer |-> sender, errand_id |-> errand_id,
     description_cid |-> description_cid]

\* ---- external service client ----
\* a continuation byte of a multi-byte sequence
utf8_cont(bytes, i) == i <= Len(bytes) /\ bytes[i] \in 128 .. 191

\* the bytes from position i on are well-formed UTF-8 sequences
RECURSIVE utf8_valid_from(_, _)
utf8_valid_from(bytes, i) ==
    IF i > Len(bytes) THEN TRUE
    ELSE LET b == bytes[i]
         IN  IF b < 128 THEN utf8_valid_from(bytes, i + 1)
             ELSE IF b \in 194 .. 223
             THEN utf8_cont(bytes, i + 1) /\ utf8_valid_from(bytes, i + 2)
             ELSE IF b \in 224 .. 239
             THEN /\ utf8_cont(bytes, i + 1) /\ utf8_cont(bytes, i + 2)
                  /\ (b = 224 => bytes[i + 1] >= 160)
                  /\ (b = 237 => bytes[i + 1] <= 159)
                  /\ utf8_valid_from(bytes, i + 3)
             ELSE IF b \in 240 .. 244
             THEN /\ utf8_cont(bytes, i + 1) /\ utf8_cont(bytes, i + 2)
                  /\ utf8_cont(bytes, i + 3)
                  /\ (b = 240 => bytes[i + 1] >= 144)
                  /\ (b = 244 => bytes[i + 1] <= 143)
                  /\ utf8_valid_from(bytes, i + 4)
             ELSE FALSE

\* mutant of from_utf8_ok: invalid bytes are let through
from_utf8_lossy(bytes) == TRUE

\* str::from_utf8(..).is_ok()
from_utf8_ok(bytes) == utf8_valid_from(bytes, 1)

new_errand_service(description_cid, errand_id) ==
    [action |-> <<47, 97>>,             \* "/a": stands for "/api/service"
     account |-> <<53, 71>>,            \* "5G": stands for the placeholder account
     proof_of_delegate |-> <<48, 120>>, \* "0x": stands for the placeholder proof
     errand_id |-> errand_id,
     description_cid |-> description_cid]

\* lines 249-263: the URL is built only if every segment is valid UTF-8
RequestBuilt(service) ==
    /\ from_utf8_ok(service.action)
    /\ from_utf8_ok(service.account)
    /\ from_utf8_ok(service.errand_id)
    /\ from_utf8_ok(service.proof_of_delegate)
    /\ from_utf8_ok(service.description_cid)

\* send_task_to_tea_network, lines 244-284, given what the HTTP layer answers
send_task_to_tea_network(description_cid, errand_id, outcome) ==
    IF ~RequestBuilt(new_errand_service(description_cid, errand_id))
    THEN "SendErrandTaskError"
    ELSE IF outcome = "Status200" THEN "Ok" ELSE "SendErrandTaskError"

\* mutant of is_err: the error of the external call is ignored
is_err_ignored(res) == FALSE

\* line 221: if let Err(e) = ... { continue }
is_err(res) == res # "Ok"

\* mutant of can_sign: an empty keystore passes the check
can_sign_always(signer) == TRUE

\* Signer::can_sign, line 213
can_sign(signer) == signer # {}

\* mutant of send_signed_transaction: one account of the keystore is used
send_signed_transaction_any(signer, accepted, sender, errand_id, description_cid) ==
    { InitErrandCall(a, sender, errand_id, description_cid) :
          a \in {x \in signer \cap accepted : \A y \in signer : x <= y} }

\* send_signed_transaction, lines 235-237: one transaction per account; the
\* accounts in accepted are those whose submission the pool took
send_signed_transaction(signer, accepted, sender, errand_id, description_cid) ==
    { InitErrandCall(a, sender, errand_id, description_cid) : a \in signer \cap accepted }

\* ---- initial state ----
Init ==
    /\ block_number = 1
    /\ executing = TRUE
    /\ extrinsic_index = 0
    /\ random_seed = 0
    /\ Tasks = <<>>
    /\ Errands = <<>>
    /\ pool = {}
    /\ keys \in Keystores
    /\ pc = [p \in Participants |-> "idle"]
    /\ wh = [p \in Participants |-> 0]
    /\ task_array = [p \in Participants |-> <<>>]
    /\ idx = [p \in Participants |-> 0]
    /\ lastRun = [p \in Participants |-> 0]
    /\ nCalls = 0
    /\ beginLog = <<>>
    /\ sent = {}
    /\ submitted = {}
    /\ executed = {}

\* ---- the deterministic domain ----
\* a begin_task extrinsic of the current block
BeginTask(in) ==
    /\ executing
    /\ nCalls < MaxCalls
    /\ nCalls' = nCalls + 1
    /\ extrinsic_index' = extrinsic_index + 1
    /\ IF ensure_signed(in.origin)
       THEN LET sender == in.origin.who
                errand_id == generate_errand_id(random_seed, sender, extrinsic_index)
            IN  /\ Tasks' = begin_task(Tasks, block_number, sender, in.cid, errand_id, in.fee)
                /\ beginLog' = Append(beginLog,
                       [height |-> block_number,
                        seed |-> random_seed,
                        index |-> extrinsic_index,
                        entry |-> <<sender, in.cid, errand_id, in.fee>>])
       ELSE UNCHANGED <<Tasks, beginLog>>
    /\ UNCHANGED <<block_number, executing, random_seed, Errands, pool, keys,
                   workerVars, sent, submitted, executed>>

\* errand ids a user can name: any id of the queue, or one of their own making
KnownIds == {Tasks[h][i][3] : <<h, i>> \in {<<h, i>> \in (DOMAIN Tasks) \X (1 .. MaxCalls) : i <= Len(Tasks[h])}}

\* an init_errand extrinsic sent by a user
InitErrandDirect(origin, employer, errand_id, description_cid) ==
    /\ executing
    /\ nCalls < MaxCalls
    /\ nCalls' = nCalls + 1
    /\ extrinsic_index' = extrinsic_index + 1
    /\ IF ensure_signed(origin)
       THEN Errands' = init_errand(Errands, employer, errand_id, description_cid)
       ELSE UNCHANGED Errands
    /\ UNCHANGED <<block_number, executing, random_seed, Tasks, pool, keys,
                   workerVars, histVars>>

\* an init_errand transaction of the pool is included in the current block
ExecCallback(tx) ==
    /\ executing
    /\ tx \in pool
    /\ pool' = pool \ {tx}
    /\ extrinsic_index' = extrinsic_index + 1
    /\ Errands' = init_errand(Errands, tx.employer, tx.errand_id, tx.description_cid)
    /\ executed' = executed \cup {tx}
    /\ UNCHANGED <<block_number, executing, random_seed, Tasks, keys,
                   workerVars, nCalls, beginLog, sent, submitted>>

\* the block is complete and imported; its offchain workers may start
FinalizeBlock ==
    /\ executing
    /\ executing' = FALSE
    /\ UNCHANGED <<block_number, extrinsic_index, random_seed, Tasks, Errands, pool,
                   keys, workerVars, nCalls, histVars>>

\* the next block starts executing
NextBlock ==
    /\ ~executing
    /\ block_number < MaxHeight
    /\ block_number' = block_number + 1
    /\ executing' = TRUE
    /\ extrinsic_index' = 0
    /\ random_seed' \in Seeds
    /\ UNCHANGED <<Tasks, Errands, pool, keys, workerVars, nCalls, histVars>>

\* ---- the offchain worker ----
\* mutant of iter_index: the list is walked from its end
iter_index_rev(vec, k) == Len(vec) + 1 - k

\* task_array.iter(), line 220: the position visited by the k-th iteration
iter_index(vec, k) == k

\* mutant of Advance: the loop is left after the first item
Advance_break(p) ==
    /\ idx' = [idx EXCEPT ![p] = 0]
    /\ pc' = [pc EXCEPT ![p] = "idle"]

\* the for loop moves to the next item, or the invocation ends
Advance(p) ==
    IF idx[p] < Len(task_array[p])
    THEN /\ idx' = [idx EXCEPT ![p] = idx[p] + 1]
         /\ pc' = [pc EXCEPT ![p] = "send"]
    ELSE /\ idx' = [idx EXCEPT ![p] = 0]
         /\ pc' = [pc EXCEPT ![p] = "idle"]

\* offchain_worker -> send_errand_tasks, lines 205-219
OffchainWorker(p) ==
    /\ ~executing
    /\ pc[p] = "idle"
    /\ lastRun[p] < block_number
    /\ lastRun' = [lastRun EXCEPT ![p] = block_number]
    /\ LET current_height == block_number
       IN  IF ~contains_key(Tasks, current_height) \/ ~can_sign(keys[p])
           THEN UNCHANGED <<Tasks, pc, wh, task_array, idx>>
           ELSE LET read == StorageGet(Tasks, current_height)
                IN  /\ Tasks' = read.storage
                    /\ wh' = [wh EXCEPT ![p] = current_height]
                    /\ task_array' = [task_array EXCEPT ![p] = read.value]
                    /\ idx' = [idx EXCEPT ![p] = 1]
                    /\ pc' = [pc EXCEPT ![p] = IF Len(read.value) > 0 THEN "send" ELSE "idle"]
    /\ UNCHANGED <<chainVars, Errands, pool, keys, nCalls, histVars>>

\* one iteration of the for loop, lines 220-226 and 229-242: the external call
\* and, unless it failed, the submission of the callback for every account
WorkerSend(p, outcome, accepted) ==
    /\ pc[p] = "send"
    /\ LET pos == iter_index(task_array[p], idx[p])
           item == task_array[p][pos]
           res == send_task_to_tea_network(item[2], item[3], outcome)
           txs == IF is_err(res)
                  THEN {}
                  ELSE send_signed_transaction(keys[p], accepted, item[1], item[3], item[2])
       IN  /\ sent' = sent \cup
                  {[p |-> p, height |-> wh[p], i |-> pos, errand_id |-> item[3],
                    http |-> RequestBuilt(new_errand_service(item[2], item[3])),
                    res |-> res,
                    accepted |-> IF res = "Ok" THEN accepted ELSE {},
                    retry |-> \E r \in sent :
                                 r.height = wh[p] /\ r.i = pos /\ r.res # "Ok"]}
           /\ pool' = pool \cup txs
           /\ submitted' = submitted \cup
                  {[p |-> p, height |-> wh[p], i |-> pos, tx |-> tx] : tx \in txs}
    /\ Advance(p)
    /\ UNCHANGED <<chainVars, Tasks, Errands, keys, wh, task_array, lastRun,
                   nCalls, beginLog, executed>>

Next ==
    \/ \E in \in BeginInputs : BeginTask(in)
    \/ \E o \in DirectOrigins, e \in DirectEmployers, id \in KnownIds \cup {ForgedId},
          c \in DirectCids : InitErrandDirect(o, e, id, c)
    \/ \E tx \in pool : ExecCallback(tx)
    \/ FinalizeBlock
    \/ NextBlock
    \/ \E p \in Participants : OffchainWorker(p)
    \/ \E p \in Participants, outcome \in HttpOutcomes :
          \E accepted \in SUBSET keys[p] : WorkerSend(p, outcome, accepted)

Spec == Init /\ [][Next]_vars

\* ---- helpers of the properties ----
Heights == 1 .. MaxHeight
Entries(h) == IF h \in DOMAIN Tasks THEN Tasks[h] ELSE <<>>
IsPrefix(a, b) == Len(a) <= Len(b) /\ \A i \in 1 .. Len(a) : a[i] = b[i]
\* the begin_task calls logged for height h, in execution order
LogAt(h) == SelectSeq(beginLog, LAMBDA r : r.height = h)
\* the positions of the queue: <<h, i>> with an entry at Tasks[h][i]
Slots == {s \in (DOMAIN Tasks) \X (1 .. MaxCalls) : s[2] <= Len(Tasks[s[1]])}
\* some callback submitted for the entry at <<h, i>> was executed
CallbackExecuted(h, i) ==
    \E s \in submitted : s.height = h /\ s.i = i /\ s.tx \in executed

\* C1: for every height h, Tasks[h] is exactly the sequence of entries
\* (requester, payload_ref, task_id, fee) of the begin_task calls executed at
\* height h, in the order they executed; the key exists iff there was a call;
\* and the list a worker has read for height h is that same sequence.
C1_QueueIsArrivalLog ==
    /\ \A h \in Heights :
           /\ Len(Entries(h)) = Len(LogAt(h))
           /\ \A i \in 1 .. Len(LogAt(h)) : Entries(h)[i] = LogAt(h)[i].entry
           /\ (h \in DOMAIN Tasks) <=> (Len(LogAt(h)) > 0)
    /\ \A p \in Participants :
           pc[p] = "send" =>
               /\ Len(task_array[p]) = Len(LogAt(wh[p]))
               /\ \A i \in 1 .. Len(task_array[p]) : task_array[p][i] = LogAt(wh[p])[i].entry

\* two begin_task calls with different entries were executed at one height
C1_Witness ==
    \E h \in DOMAIN Tasks :
        /\ Len(Tasks[h]) = 2
        /\ Tasks[h][1] # Tasks[h][2]
        /\ Tasks[h][2] = beginLog[Len(beginLog)].entry

\* C2: an invocation whose external call for an entry failed has submitted no
\* init_errand callback for that entry.
C2_NoCallbackAfterFailedCall ==
    \A r \in sent :
        r.res # "Ok" =>
            ~ \E s \in submitted : s.p = r.p /\ s.height = r.height /\ s.i = r.i

\* a request was sent and failed, while another entry's callback was submitted
C2_Witness ==
    \E r \in sent :
        /\ r.res # "Ok"
        /\ r.http
        /\ \E s \in submitted : s.p = r.p /\ s.height = r.height /\ s.i # r.i

\* participant q's invocation for height h has gone past position i
PastEntry(q, h, i) ==
    \/ pc[q] = "send" /\ wh[q] = h /\ idx[q] > i
    \/ pc[q] = "idle" /\ lastRun[q] = h /\ can_sign(keys[q])

\* C3 as stated: after the external call for an entry of height h failed in a
\* participant's invocation, that participant's invocation for the next block
\* h + 1 performs the external call for the same entry again.
C3_RetriedByNextBlock ==
    \A r \in sent :
        (r.res # "Ok" /\ pc[r.p] = "idle" /\ lastRun[r.p] = r.height + 1) =>
            \E r2 \in sent :
                r2.p = r.p /\ r2.height = r.height + 1 /\ r2.errand_id = r.errand_id

\* C3 amended: after the external call for an entry of height h failed, the
\* entry is still in Tasks[h]; an invocation whose current height is h reads
\* the queue with that entry and calls the external service for it; every
\* call made for that errand id is a call for an entry of the caller's own
\* height, so an invocation for another block does not retry it.
C3_RetriedOnlyAtSameHeight ==
    \A r \in sent :
        r.res # "Ok" =>
            /\ <<r.height, r.i>> \in Slots
            /\ Tasks[r.height][r.i][3] = r.errand_id
            /\ \A q \in Participants :
                   /\ (pc[q] = "send" /\ wh[q] = r.height) => task_array[q] = Tasks[r.height]
                   /\ PastEntry(q, r.height, r.i) =>
                          \E r2 \in sent : /\ r2.p = q /\ r2.height = r.height
                                           /\ r2.i = r.i /\ r2.errand_id = r.errand_id
            /\ \A r2 \in sent :
                   r2.errand_id = r.errand_id =>
                       /\ <<r2.height, r2.i>> \in Slots
                       /\ Tasks[r2.height][r2.i][3] = r2.errand_id

\* another participant's invocation at the same height called the external
\* service for an entry whose call had failed before, and the invocation of the
\* next block has run as well
C3_Witness ==
    /\ \E r \in sent : r.retry /\ r.http
    /\ \E q \in Participants : lastRun[q] = MaxHeight /\ pc[q] = "idle"

\* C4 as stated: every key of the Errand Registry is the task id of some
\* Task Queue entry enqueued at a height not above the current one.
C4_RegistryKeysWereQueued ==
    \A id \in DOMAIN Errands :
        \E s \in Slots : s[1] <= block_number /\ Tasks[s[1]][s[2]][3] = id

\* C5: when the signed init_errand transaction submitted for the queue entry
\* (requester, payload_ref, task_id, fee) at Tasks[h][i] is executed, the
\* registry holds under task_id the record with account_id = encode(requester),
\* errand_id = task_id, description_cid = payload_ref, status Processing
\* (spelled Precessing in the source) and an empty result.
C5_ExecutedCallbackRecordsEntry ==
    [][\A s \in submitted :
           (s.tx \in pool /\ s.tx \notin pool') =>
               /\ <<s.height, s.i>> \in Slots
               /\ LET e == Tasks[s.height][s.i]
                  IN  /\ e[3] \in DOMAIN Errands'
                      /\ Errands'[e[3]] = [account_id |-> encode(e[1]),
                                           errand_id |-> e[3],
                                           description_cid |-> e[2],
                                           status |-> "Precessing",
                                           result |-> <<>>]]_vars

\* the callback of an entry was executed and its record is in the registry
C5_Witness ==
    \E s \in submitted :
        /\ s.tx \in executed
        /\ s.tx.errand_id \in DOMAIN Errands
        /\ Errands[s.tx.errand_id].account_id = encode(Tasks[s.height][s.i][1])
        /\ Errands[s.tx.errand_id].description_cid = <<98>>

\* C6: a worker step leaves Tasks and Errands as they were, and a step in
\* which the external call fails, or in which no account's submission is
\* accepted, leaves the transaction pool as it was too, so nothing of the
\* failure can reach the deterministic domain.
C6_FailureLeavesChainState ==
    [][(lastRun' # lastRun \/ sent' # sent) =>
           /\ Tasks' = Tasks
           /\ Errands' = Errands
           /\ \A r \in sent' \ sent :
                  (\/ r.res # "Ok"
                   \/ ~ \E s \in submitted' : s.p = r.p /\ s.height = r.height /\ s.i = r.i)
                  => pool' = pool]_vars

\* an invocation is over in which a sent request failed, and the failed task
\* id is absent from the registry while the entry is still queued
C6_Witness ==
    \E r \in sent :
        /\ r.res # "Ok"
        /\ r.http
        /\ pc[r.p] = "idle"
        /\ r.errand_id \notin DOMAIN Errands
        /\ Len(Entries(r.height)) >= r.i
        /\ pool = {}

SameArgs(t, u) ==
    /\ t.employer = u.employer
    /\ t.errand_id = u.errand_id
    /\ t.description_cid = u.description_cid

\* the record an init_errand call with the arguments of transaction t leaves
RecordOf(t) ==
    [account_id |-> encode(t.employer), errand_id |-> t.errand_id,
     description_cid |-> t.description_cid, status |-> "Precessing", result |-> <<>>]

\* C7: executing init_errand again with arguments (requester, task_id,
\* payload_ref) that were executed before, whichever participant or account
\* signed, adds no key to the registry and leaves under task_id the record of
\* those arguments; if that record was still there, the registry is unchanged.
C7_CallbackIdempotent ==
    [][\A tx \in pool :
           (tx \notin pool' /\ \E t \in executed : SameArgs(t, tx)) =>
               /\ DOMAIN Errands' = DOMAIN Errands \cup {tx.errand_id}
               /\ Errands'[tx.errand_id] = RecordOf(tx)
               /\ \A k \in DOMAIN Errands : k # tx.errand_id => Errands'[k] = Errands[k]
               /\ (tx.errand_id \in DOMAIN Errands /\ Errands[tx.errand_id] = RecordOf(tx))
                      => Errands' = Errands]_vars

\* two transactions with the same arguments and different signers were both
\* executed, and the registry holds the one record of those arguments
C7_Witness ==
    \E t \in executed, u \in executed :
        /\ t # u
        /\ SameArgs(t, u)
        /\ t.errand_id \in DOMAIN Errands
        /\ Errands[t.errand_id] = RecordOf(t)

\* C8: no step removes, reorders or alters a queue entry: for every height,
\* Tasks[h] before the step is a prefix of Tasks[h] after it.
C8_QueueOnlyGrows ==
    [][\A h \in DOMAIN Tasks :
           /\ h \in DOMAIN Tasks'
           /\ IsPrefix(Tasks[h], Tasks'[h])]_vars

\* a list was extended by a second begin_task, a worker has read it and a
\* callback was executed
C8_Witness ==
    /\ \E h \in DOMAIN Tasks : Len(Tasks[h]) >= 2
    /\ sent # {}
    /\ executed # {}

\* C9 as stated: a record under task id t exists only if an external call
\* for t returned status 200 before.
C9_RecordImpliesAcceptedCall ==
    \A id \in DOMAIN Errands :
        \E r \in sent : r.errand_id = id /\ r.res = "Ok"

\* C10: two entries of one height enqueued by different requesters carry
\* different task ids, and once a callback of each has been executed the
\* registry holds a record under each id, each with its own id and requester.
C10_DistinctIdsDistinctRecords ==
    \A s \in Slots, t \in Slots :
        (s[1] = t[1] /\ s[2] < t[2] /\ Tasks[s[1]][s[2]][1] # Tasks[t[1]][t[2]][1]) =>
            LET a == Tasks[s[1]][s[2]]
                b == Tasks[t[1]][t[2]]
            IN  /\ a[3] # b[3]
                /\ (CallbackExecuted(s[1], s[2]) /\ CallbackExecuted(t[1], t[2])) =>
                       /\ {a[3], b[3]} \subseteq DOMAIN Errands
                       /\ Errands[a[3]].errand_id = a[3]
                       /\ Errands[b[3]].errand_id = b[3]
                       /\ Errands[a[3]] # Errands[b[3]]

\* both entries of one height, from requesters 1 and 2, were dispatched and
\* their callbacks executed
C10_Witness ==
    \E h \in DOMAIN Tasks :
        /\ Len(Tasks[h]) = 2
        /\ Tasks[h][1][1] # Tasks[h][2][1]
        /\ CallbackExecuted(h, 1)
        /\ CallbackExecuted(h, 2)
        /\ Cardinality(DOMAIN Errands) = 2

\* C11: the task id of an enqueued entry is a function of the block's random
\* seed, the requester and the extrinsic index alone: two begin_task calls
\* that ran under the same triple produced the same id, and two calls with
\* the same seed and requester but different extrinsic indices produced
\* different ids.
C11_IdDeterminedByTriple ==
    \A m \in 1 .. Len(beginLog), n \in 1 .. Len(beginLog) :
        LET a == beginLog[m]
            b == beginLog[n]
        IN  (a.seed = b.seed /\ a.entry[1] = b.entry[1]) =>
                /\ (a.index = b.index) => (a.entry[3] = b.entry[3])
                /\ (a.index # b.index) => (a.entry[3] # b.entry[3])

\* two calls at different heights ran under the same seed, requester and
\* extrinsic index and the queues hold the same id for both
C11_Witness ==
    \E m \in 1 .. Len(beginLog), n \in 1 .. Len(beginLog) :
        LET a == beginLog[m]
            b == beginLog[n]
        IN  /\ a.height < b.height
            /\ a.seed = b.seed
            /\ a.index = b.index
            /\ a.entry[1] = b.entry[1]
            /\ Tasks[a.height][1][3] = Tasks[b.height][1][3]

\* C12: a worker invocation that finds no local signing account, or no entry
\* of Tasks at the current height, is a no-op: the step that starts it makes
\* no external call, submits no callback and changes nothing but the
\* participant's own record of having run, and it ends at once.
C12_IdleInvocationIsNoOp ==
    [][\A p \in Participants :
          (lastRun'[p] # lastRun[p]
              /\ (keys[p] = {} \/ block_number \notin DOMAIN Tasks)) =>
                 /\ pc'[p] = "idle"
                 /\ sent' = sent
                 /\ submitted' = submitted
                 /\ UNCHANGED <<chainVars, Tasks, Errands, pool, keys, pc, wh,
                                task_array, idx, nCalls, beginLog, executed>>]_vars

\* a participant without keys ran at a height that has entries, a participant
\* with keys ran at a height that has none, and no external call was made
C12_Witness ==
    \E p \in Participants, q \in Participants :
        /\ keys[p] = {}
        /\ lastRun[p] \in DOMAIN Tasks
        /\ keys[q] # {}
        /\ lastRun[q] \in Heights \ DOMAIN Tasks
        /\ pc[p] = "idle" /\ pc[q] = "idle"
        /\ sent = {}

\* the queue positions for which participant p made the external call in its
\* invocation at height h
CalledAt(p, h) == {r.i : r \in {x \in sent : x.p = p /\ x.height = h}}

\* C13: within one worker invocation over the entries e1..en the external call
\* is made exactly once per entry, whatever the outcome of the call or of the
\* signed submission for an earlier entry: while the loop stands at position
\* k exactly the entries before k have been called, a finished invocation has
\* called every entry of its height, and no entry has two calls.
C13_OneCallPerEntry ==
    \A p \in Participants, h \in Heights :
        /\ \A r \in sent, u \in sent :
               (r.p = p /\ u.p = p /\ r.height = h /\ u.height = h /\ r.i = u.i) => r = u
        /\ IF pc[p] = "send" /\ wh[p] = h
           THEN CalledAt(p, h) = 1 .. (idx[p] - 1)
           ELSE CalledAt(p, h) \in {{}, 1 .. Len(Entries(h))}
        /\ (pc[p] = "idle" /\ lastRun[p] = h /\ keys[p] # {}) =>
               CalledAt(p, h) = 1 .. Len(Entries(h))

\* a finished invocation over two entries: the call for the first failed and
\* the call for the second was still made
C13_Witness ==
    \E r \in sent, u \in sent :
        /\ r.p = u.p /\ r.height = u.height
        /\ pc[r.p] = "idle"
        /\ Len(Entries(r.height)) = 2
        /\ r.i = 1 /\ r.res # "Ok"
        /\ u.i = 2 /\ u.res = "Ok"
        /\ CalledAt(r.p, r.height) = {1, 2}

\* C14: a worker invocation processes the entries in queue order: at the step
\* that makes the external call for position j, the calls for exactly the
\* positions before j have been made and every callback submitted so far is
\* for a position before j, and the callbacks submitted by that step are for
\* position j itself.
C14_ProcessedInQueueOrder ==
    [][\A r \in sent' \ sent :
          /\ CalledAt(r.p, r.height) = 1 .. (r.i - 1)
          /\ \A s \in submitted :
                 (s.p = r.p /\ s.height = r.height) => s.i < r.i
          /\ \A s \in submitted' \ submitted :
                 s.p = r.p /\ s.height = r.height /\ s.i = r.i]_vars

\* one invocation called both entries of its height and submitted a callback
\* for each
C14_Witness ==
    \E r \in sent, u \in sent :
        /\ r.p = u.p /\ r.height = u.height
        /\ r.i = 1 /\ u.i = 2
        /\ \E s \in submitted, t \in submitted :
               /\ s.p = r.p /\ s.height = r.height /\ s.i = 1
               /\ t.p = r.p /\ t.height = r.height /\ t.i = 2

\* every key of map old except k is a key of map new with the same value, and
\* new has no key besides those of old and k
OtherKeysKept(old, new, k) ==
    /\ DOMAIN new \subseteq DOMAIN old \cup {k}
    /\ \A x \in DOMAIN old \ {k} : x \in DOMAIN new /\ new[x] = old[x]

\* C15: frame conditions. A worker step (the start of an invocation or one
\* iteration of its loop) leaves Tasks and Errands unchanged; begin_task
\* changes Tasks only at the current height and leaves Errands unchanged;
\* init_errand, as a callback or sent by a user, changes Errands only at the
\* id it is given and leaves Tasks unchanged.
C15_Frame ==
    [][/\ \A p \in Participants :
              (lastRun'[p] # lastRun[p] \/ pc'[p] # pc[p] \/ idx'[p] # idx[p]) =>
                  (Tasks' = Tasks /\ Errands' = Errands)
       /\ (\E in \in BeginInputs : BeginTask(in)) =>
              (Errands' = Errands /\ OtherKeysKept(Tasks, Tasks', block_number))
       /\ \A tx \in pool :
              ExecCallback(tx) =>
                  (Tasks' = Tasks /\ OtherKeysKept(Errands, Errands', tx.errand_id))
       /\ \A o \in DirectOrigins, e \in DirectEmployers,
             id \in KnownIds \cup {ForgedId}, c \in DirectCids :
              InitErrandDirect(o, e, id, c) =>
                  (Tasks' = Tasks /\ OtherKeysKept(Errands, Errands', id))
       /\ (Tasks' # Tasks) => (Errands' = Errands /\ beginLog' # beginLog)
       /\ (Errands' # Errands) => (Tasks' = Tasks /\ sent' = sent)]_vars

\* a queue entry was dispatched and its callback executed, and a user's
\* init_errand wrote a second id: the registry holds two records, each
\* written by a call that was given its own id only
C15_Witness ==
    /\ Tasks # <<>>
    /\ sent # {}
    /\ executed # {}
    /\ Cardinality(DOMAIN Errands) = 2
    /\ ForgedId \in DOMAIN Errands

\* the arguments of a user's init_errand call, in the shape of a transaction
DirectArgs(employer, errand_id, description_cid) ==
    [employer |-> employer, errand_id |-> errand_id, description_cid |-> description_cid]

\* C16: last writer wins. Every init_errand with a signed origin, executed as
\* a callback of the pool or sent by a user, leaves under its errand_id the
\* record built from its own arguments, whether or not a record was there and
\* whatever it held; of two calls for one id the registry holds the later.
C16_LastWriterWins ==
    [][/\ \A tx \in pool :
              ExecCallback(tx) =>
                  /\ tx.errand_id \in DOMAIN Errands'
                  /\ Errands'[tx.errand_id] = RecordOf(tx)
       /\ \A o \in DirectOrigins, e \in DirectEmployers,
             id \in KnownIds \cup {ForgedId}, c \in DirectCids :
              (InitErrandDirect(o, e, id, c) /\ o.kind = "Signed") =>
                  /\ id \in DOMAIN Errands'
                  /\ Errands'[id] = RecordOf(DirectArgs(e, id, c))]_vars

\* a callback for an id was executed and the registry holds under that id the
\* different record of a user's call for it: the user's call came later and
\* replaced the callback's record
C16_Witness ==
    \E tx \in executed :
        \E e \in DirectEmployers, c \in DirectCids :
            /\ tx.errand_id \in DOMAIN Errands
            /\ Errands[tx.errand_id] = RecordOf(DirectArgs(e, tx.errand_id, c))
            /\ Errands[tx.errand_id] # RecordOf(tx)

\* C17: every record of the registry, under whatever key k, has errand_id = k,
\* the status of a record in processing (the source's variant Precessing) and
\* an empty result; no record is Done and none is stored under a key other
\* than its own errand_id.
C17_RecordsAreFreshAndSelfKeyed ==
    \A k \in DOMAIN Errands :
        /\ Errands[k].errand_id = k
        /\ Errands[k].status = "Precessing"
        /\ Errands[k].status # "Done"
        /\ Errands[k].result = <<>>

\* the registry holds a record written by a callback and a record written by
\* a user's call, under different keys
C17_Witness ==
    /\ ForgedId \in DOMAIN Errands
    /\ \E tx \in executed :
           /\ tx.errand_id # ForgedId
           /\ tx.errand_id \in DOMAIN Errands
           /\ Errands[tx.errand_id].description_cid = tx.description_cid

\* bytes that occur in no well-formed UTF-8 text
NeverInUtf8 == {192, 193} \cup (245 .. 255)

\* C18: an entry whose payload reference holds bytes that are not valid UTF-8
\* makes the external service client fail with SendErrandTaskError before an
\* HTTP request is built, no callback is submitted for the entry, and the
\* worker goes on to the next entry of the queue.
C18_InvalidPayloadFailsBeforeRequest ==
    \A r \in sent :
        LET cid == Entries(r.height)[r.i][2]
        IN  (\E k \in 1 .. Len(cid) : cid[k] \in NeverInUtf8) =>
                /\ r.res = "SendErrandTaskError"
                /\ ~r.http
                /\ ~\E s \in submitted : s.p = r.p /\ s.height = r.height /\ s.i = r.i
                /\ r.i < Len(Entries(r.height)) =>
                       \/ r.i + 1 \in CalledAt(r.p, r.height)
                       \/ pc[r.p] = "send" /\ wh[r.p] = r.height /\ idx[r.p] = r.i + 1

\* the first entry of a queue has an invalid payload reference, its call
\* failed without a request, and the same invocation then sent the request
\* for the second entry and got 200
C18_Witness ==
    \E r \in sent, u \in sent :
        /\ r.p = u.p /\ r.height = u.height
        /\ r.i = 1 /\ u.i = 2
        /\ Entries(r.height)[1][2] = <<255>>
        /\ ~r.http /\ r.res = "SendErrandTaskError"
        /\ u.http /\ u.res = "Ok"

\* C19: a worker invocation started at height h makes the external call only
\* for entries of Tasks[h]: every call it makes is for the position, in the
\* queue of the height it started at, of an entry that begin_task enqueued at
\* that height, so an entry enqueued at one height is never dispatched by an
\* invocation of another.
C19_OnlyOwnHeightDispatched ==
    [][\A r \in sent' \ sent :
          /\ r.height = lastRun[r.p]
          /\ r.height \in DOMAIN Tasks
          /\ r.i <= Len(LogAt(r.height))
          /\ LogAt(r.height)[r.i].entry = Tasks[r.height][r.i]
          /\ LogAt(r.height)[r.i].entry[3] = r.errand_id]_vars

\* queues at heights 1 and 2 with different ids, and a call was made for each
\* by the invocation of its own height
C19_Witness ==
    \E r \in sent, u \in sent :
        /\ r.height = 1 /\ u.height = 2
        /\ r.errand_id # u.errand_id
        /\ {1, 2} \subseteq DOMAIN Tasks

\* the callbacks participant p submitted for position i of height h
SubmittedFor(p, h, i) ==
    {s.tx : s \in {x \in submitted : x.p = p /\ x.height = h /\ x.i = i}}

\* C20: for an entry whose external call succeeded the worker submits one
\* init_errand transaction for every account of the local keystore, all with
\* the entry's requester, id and payload reference: the transactions that
\* reached the pool are exactly one per account whose submission did not
\* fail, so k accounts without failure give k submissions and the failure of
\* one account does not keep the others from being submitted.
C20_OneCallbackPerAccount ==
    \A r \in sent :
        (r.res = "Ok") =>
            LET e == Tasks[r.height][r.i]
            IN  /\ r.accepted \subseteq keys[r.p]
                /\ SubmittedFor(r.p, r.height, r.i) =
                       {[signer |-> a, employer |-> e[1], errand_id |-> e[3],
                         description_cid |-> e[2]] : a \in r.accepted}
                /\ Cardinality(SubmittedFor(r.p, r.height, r.i)) = Cardinality(r.accepted)

\* a keystore of two accounts: for one entry both submissions were taken and
\* two callbacks were submitted, for another the submission of one account
\* failed and the callback of the other account was still submitted
C20_Witness ==
    \E r \in sent, u \in sent :
        /\ r.p = u.p /\ r.height = u.height /\ r.i # u.i
        /\ r.res = "Ok" /\ u.res = "Ok"
        /\ Cardinality(keys[r.p]) = 2
        /\ r.accepted = keys[r.p]
        /\ Cardinality(SubmittedFor(r.p, r.height, r.i)) = 2
        /\ Cardinality(u.accepted) = 1
        /\ Cardinality(SubmittedFor(u.p, u.height, u.i)) = 1

====
